---- MODULE Spec2Model ----
(***************************************************************************)
(* A model of the agentic orchestrator: the MCP (JSON-RPC over stdio)      *)
(* client of gemini_core/mcp.py, the tool registry of gemini_core/tools.py *)
(* and the conversation engine of gemini_core/chat.py, driven by the       *)
(* command loop of gemini_cli.py.                                          *)
(***************************************************************************)
EXTENDS Integers, Sequences, FiniteSets, TLC

(***************************************************************************)
(* Bounds of the model.                                                    *)
(***************************************************************************)
\* ids a connection may assign before the model stops issuing requests
MaxReq == 3
\* lines nobody asked for that the children of one connection may write
MaxJunk == 1
\* child processes one connection object may spawn
MaxSpawn == 2
\* the time units that pass in one step of the clock
TickStep == 5
\* calls of the Model Backend in one session, when it is free to answer as
\* it likes
MaxCalls == 2
\* ChatSession objects main() creates in one run
MaxSessions == 2
\* characters of the longest text a tool gives back
MaxResultLen == 202
\* messages the user sends in a session whose first message runs out of turns
MaxMessages == 2

(***************************************************************************)
(* Program constants.                                                      *)
(***************************************************************************)
\* str(tool_result)[:200] ... if len(str(tool_result)) > 200
PREVIEW_LEN == 200
\* resp_queue.get(timeout=10)
TIMEOUT == 10
\* max_turns = 10
max_turns == 10

\* the MCPClient objects a run of main() may create, and the one most
\* specifications connect
ConnIds == {"c1", "c2"}
OneConn == {"c1"}
ThreadIds == {"main", "t2"}

\* Python's None, as a JSON-RPC result
NoneVal == [kind |-> "null", content |-> <<>>, tools |-> <<>>]

\* a content item of a tools/call result
TextItem(s) == [type |-> "text", text |-> s]
ImageItem == [type |-> "image", text |-> ""]
\* an item that has no "type" member: item["type"] is a KeyError
UntypedItem == [type |-> "absent", text |-> ""]

\* the "result" members a child process may answer with
ContentBody(items) == [kind |-> "content", content |-> items, tools |-> <<>>]
ToolsBody(names) == [kind |-> "tools", content |-> <<>>, tools |-> names]
EmptyBody == [kind |-> "empty", content |-> <<>>, tools |-> <<>>]

RemoteToolNames == {"remote_tool"}

\* more results of tools/call: an item of another type before the text, no
\* text item at all, two text items, an empty list
ContentBodies ==
    { ContentBody(<<ImageItem, TextItem("second")>>),
      ContentBody(<<ImageItem>>),
      ContentBody(<<TextItem("a"), TextItem("b")>>),
      ContentBody(<<>>) }

Bodies ==
    { ContentBody(<<TextItem("r")>>),
      ContentBody(<<UntypedItem>>),
      ToolsBody(<<"write_file", "remote_tool">>),
      EmptyBody }

\* bool(result) in Python: None and {} are falsy
Truthy(body) == body.kind \notin {"null", "empty"}

\* the id an unsolicited line carries: one no request of the model was given
StrayId == MaxReq + 1

\* a line on the child's standard output
ResultLine(i, body) == [kind |-> "result", id |-> i, body |-> body]
ErrorLine(i) == [kind |-> "error", id |-> i, body |-> NoneVal]
NoteLine == [kind |-> "note", id |-> 0, body |-> NoneVal]
GarbageLine == [kind |-> "garbage", id |-> 0, body |-> NoneVal]
\* a line that is JSON but no object, such as 42 or null
ScalarLine == [kind |-> "scalar", id |-> 0, body |-> NoneVal]

\* "id" in message
HasId(m) == m.kind \in {"result", "error"}

\* a line written to the child's standard input
RequestLine(i, method) == [kind |-> "request", id |-> i, method |-> method]
NotificationLine(method) == [kind |-> "notification", id |-> 0, method |-> method]
\* the first part of a request line, its end and its newline not yet written
PartLine(i, method) == [kind |-> "part", id |-> i, method |-> method]
\* bytes of two messages in one line
GarbledLine == [kind |-> "garbled", id |-> 0, method |-> ""]

NewProcess == [alive |-> TRUE, stdin |-> <<>>, stdout |-> <<>>]

IdleFrame == [pc |-> "idle", conn |-> "c1", tmp |-> 0, req_id |-> 0,
              method |-> "", waited |-> 0, ret |-> NoneVal, how |-> "none",
              got |-> NoteLine]

(***************************************************************************)
(* Values of the registry and of the conversation engine.                  *)
(***************************************************************************)
\* SENSITIVE_TOOLS = ['run_terminal', 'write_file']
SENSITIVE_TOOLS == {"run_terminal", "write_file"}

\* the functions registered with @registry.register
LocalTools ==
    {"read_file", "write_file", "list_directory", "run_terminal", "search_files",
     "web_search"}

\* self.tools.items(): the names in the order the functions were registered
LocalToolOrder ==
    <<"read_file", "write_file", "list_directory", "run_terminal", "search_files",
      "web_search">>

\* what the user may type at a confirmation prompt, character by character
UserAnswers == { <<"y">>, <<" ", "Y", " ">>, <<"n">>, <<>>, <<"y", "e", "s">> }

Whitespace == {" "}

\* str.strip()
RECURSIVE LStrip(_)
LStrip(s) == IF s # <<>> /\ Head(s) \in Whitespace THEN LStrip(Tail(s)) ELSE s

RECURSIVE RStrip(_)
RStrip(s) ==
    IF s # <<>> /\ s[Len(s)] \in Whitespace THEN RStrip(SubSeq(s, 1, Len(s) - 1)) ELSE s

Strip(s) == RStrip(LStrip(s))

\* str.lower()
LowerChar(ch) == IF ch = "Y" THEN "y" ELSE IF ch = "N" THEN "n" ELSE ch

Lower(s) == [k \in DOMAIN s |-> LowerChar(s[k])]

\* input("   Allow this action? (y/n): ").strip().lower()
Confirmation(typed) == Lower(Strip(typed))

\* anything but a plain no is taken for consent
RefusedOnlyNo(user_confirm) == user_confirm = <<"n">>

\* if user_confirm != 'y', before a sensitive tool
Refused(user_confirm) == user_confirm # <<"y">>

\* the test left out
RefusedNever(user_confirm) == FALSE

\* if user_confirm != 'y', before a remote tool
RefusedRemote(user_confirm) == user_confirm # <<"y">>

\* the strings execute() and send_message() build, piece by piece
UserDenied == <<"Error: User denied execution.">>

\* the name of the tool left out of the message
ExecutionErrorBare(tool_name, e) == <<"Error: ", e>>

ExecutionError(tool_name, e) == <<"Error executing ", tool_name, ": ", e>>
\* the name of the tool left out of the message
NotFoundBare(tool_name) == <<"Error: Tool not found.">>

NotFound(tool_name) == <<"Error: Tool '", tool_name, "' not found.">>
MaxTurnsReached == <<"Error: Max tool execution turns reached.">>
\* the error given back without the prefix
BackendErrorBare(e) == <<e>>

BackendError(e) == <<"Error: ", e>>

\* str(result) of what call_tool returned
Str(result) == IF result.kind = "null" THEN <<"None">> ELSE <<"{", result.kind, "}">>

\* for item in result["content"]: if item["type"] == "text": return item["text"]
TextItems(result) == { k \in DOMAIN result.content : result.content[k].type = "text" }

\* the text of the first item, whatever its type
RemoteResultFirstItem(result) ==
    IF Truthy(result) /\ result.kind = "content" /\ result.content # <<>>
    THEN <<result.content[1].text>>
    ELSE Str(result)

\* what execute() returns for the result of call_tool
RemoteResult(result) ==
    IF Truthy(result) /\ result.kind = "content" /\ TextItems(result) # {}
    THEN <<result.content[CHOOSE k \in TextItems(result) :
                              \A j \in TextItems(result) : k <= j].text>>
    ELSE Str(result)

\* the scan of result["content"] meets an item without "type" before any text
\* item: the KeyError is caught nowhere in execute()
RemoteRaises(result) ==
    /\ Truthy(result)
    /\ result.kind = "content"
    /\ \E k \in DOMAIN result.content :
          /\ result.content[k].type = "absent"
          /\ \A j \in 1..(k - 1) : result.content[j].type # "text"

\* the lengths of the texts a local tool may give back
ResultLens == { 0, 1, PREVIEW_LEN, PREVIEW_LEN + 1, MaxResultLen }

\* a functionCall of the Model Backend
FunctionCall(name, args) == [name |-> name, args |-> args]

\* a text part that lost its text
TextPartEmpty(text) ==
    [kind |-> "text", name |-> "", content |-> <<"">>, thoughtSignature |-> <<>>]

\* the parts of a turn
\* the thoughtSignature key of a part is <<>> when the part has none
TextPart(text) ==
    [kind |-> "text", name |-> "", content |-> <<text>>, thoughtSignature |-> <<>>]

\* what the Model Backend may give as thoughtSignature: none, an empty string,
\* a token
ThoughtSignatures == { <<>>, <<"">>, <<"s">> }

\* if thought_sig:
SigTruthy(thought_sig) == thought_sig \notin { <<>>, <<"">> }

\* part_dict = {"functionCall": fc} and the thoughtSignature put in it
FunctionCallPart(fc, thought_sig) ==
    [kind |-> "functionCall", name |-> fc.name, content |-> <<>>,
     thoughtSignature |-> IF SigTruthy(thought_sig) THEN thought_sig ELSE <<>>]

FunctionResponsePart(tool_name, tool_result) ==
    [kind |-> "functionResponse", name |-> tool_name, content |-> tool_result,
     thoughtSignature |-> <<>>]

\* what the stream callback is given around one tool
RunningTool(tool_name) == [event |-> "Running tool", name |-> tool_name]

\* a text of n characters
Chars(n) == [k \in 1..n |-> "x"]

\* preview = str(tool_result)[:200] + "..." if len(str(tool_result)) > 200
\*           else str(tool_result)
Preview(tool_result) ==
    IF Len(tool_result) > PREVIEW_LEN
    THEN SubSeq(tool_result, 1, PREVIEW_LEN) \o <<".", ".", ".">>
    ELSE tool_result

ResultShown(tool_name, tool_result) ==
    [event |-> "Result", name |-> tool_name, preview |-> Preview(tool_result)]

Turn(role, parts) == [role |-> role, parts |-> parts]

\* what _request_generate returns
Failed ==
    [success |-> FALSE, text |-> "", function_calls |-> <<>>, thought_signature |-> <<>>]
Answer(text, function_calls, thought_signature) ==
    [success |-> TRUE, text |-> text, function_calls |-> function_calls,
     thought_signature |-> thought_signature]

\* the lists of function calls the Model Backend asks for
CallLists ==
    { <<FunctionCall("write_file", "given"), FunctionCall("remote_tool", "given")>>,
      <<FunctionCall("read_file", "given"), FunctionCall("missing", "given")>> }

\* the one it asks for over and over when it never gives a final text
LoopCalls == <<FunctionCall("list_directory", "given")>>

\* response is the local of that name; stream is what the stream callback
\* was given in the round
IdleChat == [pc |-> "idle", current_turn |-> 0, function_calls |-> <<>>,
             fr_parts |-> <<>>, ret |-> <<>>, calls |-> 0, rounds |-> 0,
             response |-> Failed, stream |-> <<>>]

IdleExec == [pc |-> "idle", tool_name |-> "", typed |-> <<>>, invoked |-> FALSE,
             raised |-> FALSE, issued |-> 0, sent |-> <<>>, client |-> "",
             how |-> "none", ret |-> <<>>]

VARIABLES
    threads,           \* the threads that call into the client
    request_id,        \* MCPClient.request_id, per connection object
    pending_requests,  \* MCPClient.pending_requests: id -> owner of the queue
    tools,             \* MCPClient.tools: the discovered tool names
    is_connected,      \* MCPClient.is_connected
    process,           \* MCPClient.process: 0 is None, else the generation
    procs,             \* the child processes spawned by a connection object
    readers,           \* the _read_loop threads started by a connection
    rpc,               \* per thread: the frame of its send_request call
    resp_queue,        \* per thread: the local resp_queue of that frame
    task,              \* per thread: what called send_request
    assigned,          \* per connection: the ids given to requests, in order
    emitted,           \* per connection: the lines its children have written
    SAFE_MODE,         \* config.SAFE_MODE
    session,           \* which ChatSession main() holds, and the /safe typed in it
    mcp_clients,       \* ToolRegistry.mcp_clients
    history,           \* ChatSession.history
    chat,              \* the frame of ChatSession.send_message
    exec,              \* the frame of ToolRegistry.execute
    backend            \* how the Model Backend behaves, and the calls made to it

vars == <<threads, request_id, pending_requests, tools, is_connected, process,
          procs, readers, rpc, resp_queue, task, assigned, emitted,
          SAFE_MODE, session, mcp_clients, history, chat, exec, backend>>

engineVars == <<SAFE_MODE, session, mcp_clients, history, chat, exec, backend>>

connVars == <<request_id, pending_requests, tools, is_connected, process,
              procs, readers, assigned, emitted>>

IdleTask == [op |-> "idle", conn |-> "c1", result |-> "none"]

\* chat = ChatSession(client, model=model): the first session, in which /safe
\* was typed an even number of times so far
FirstSession == [id |-> 1, flips |-> 0]

InitClient ==
    /\ request_id = [c \in ConnIds |-> 0]
    /\ pending_requests = [c \in ConnIds |-> <<>>]
    /\ tools = [c \in ConnIds |-> <<>>]
    /\ is_connected = [c \in ConnIds |-> FALSE]
    /\ process = [c \in ConnIds |-> 0]
    /\ procs = [c \in ConnIds |-> <<>>]
    /\ readers = [c \in ConnIds |-> <<>>]
    /\ rpc = [t \in ThreadIds |-> IdleFrame]
    /\ resp_queue = [t \in ThreadIds |-> <<>>]
    /\ task = [t \in ThreadIds |-> IdleTask]
    /\ assigned = [c \in ConnIds |-> <<>>]
    /\ emitted = [c \in ConnIds |-> 0]
    /\ SAFE_MODE = TRUE
    /\ session = FirstSession
    /\ mcp_clients = <<>>
    /\ history = <<>>
    /\ chat = IdleChat
    /\ exec = IdleExec

\* the current process of a connection is running
Alive(c) == process[c] # 0 /\ procs[c][process[c]].alive

\* the entries of a pending table that belong to no live frame any more
Orphaned(p, t) == [i \in DOMAIN p |-> IF p[i] = t THEN "dead" ELSE p[i]]

\* dict without one key
Without(p, i) == [j \in DOMAIN p \ {i} |-> p[j]]

\* dict with one key set
With(p, i, v) == [j \in DOMAIN p \cup {i} |-> IF j = i THEN v ELSE p[j]]

(***************************************************************************)
(* MCPClient.send_request, one action per shared-memory step of the frame  *)
(* of thread t.                                                            *)
(***************************************************************************)
\* the increment forgotten
NextRequestIdSame(cur) == cur

\* self.request_id += 1, the value stored
NextRequestId(cur) == cur + 1

\* the requests connection c was asked to send so far
Issued(c) ==
    Len(assigned[c]) +
    Cardinality({ t \in threads : rpc[t].conn = c /\ rpc[t].pc \in {"load", "store", "read"} })

\* entering send_request(method) on connection c
BeginRequest(t, c, method) ==
    /\ Issued(c) < MaxReq
    /\ rpc' = [rpc EXCEPT ![t] = [IdleFrame EXCEPT !.pc = "load", !.conn = c,
                                                   !.method = method]]

\* self.request_id += 1: the read of the attribute
SR_Load(t) ==
    /\ rpc[t].pc = "load"
    /\ rpc' = [rpc EXCEPT ![t].tmp = request_id[rpc[t].conn], ![t].pc = "store"]
    /\ UNCHANGED <<threads, connVars, resp_queue, task>>
    /\ UNCHANGED engineVars

\* self.request_id += 1: the write of the attribute
SR_Store(t) ==
    /\ rpc[t].pc = "store"
    /\ request_id' = [request_id EXCEPT ![rpc[t].conn] = NextRequestId(rpc[t].tmp)]
    /\ rpc' = [rpc EXCEPT ![t].pc = "read", ![t].tmp = 0]
    /\ UNCHANGED <<threads, pending_requests, tools, is_connected, process,
                   procs, readers, resp_queue, task, assigned, emitted>>
    /\ UNCHANGED engineVars

\* req_id = self.request_id
SR_Read(t) ==
    /\ rpc[t].pc = "read"
    /\ rpc' = [rpc EXCEPT ![t].req_id = request_id[rpc[t].conn], ![t].pc = "register"]
    /\ assigned' = [assigned EXCEPT ![rpc[t].conn] = Append(@, request_id[rpc[t].conn])]
    /\ UNCHANGED <<threads, request_id, pending_requests, tools, is_connected,
                   process, procs, readers, resp_queue, task, emitted>>
    /\ UNCHANGED engineVars

\* the queue is made but not put in the table before the write
SR_RegisterSkipped(t) ==
    /\ rpc[t].pc = "register"
    /\ resp_queue' = [resp_queue EXCEPT ![t] = <<>>]
    /\ rpc' = [rpc EXCEPT ![t].pc = "write"]
    /\ UNCHANGED <<threads, connVars, task>>
    /\ UNCHANGED engineVars

\* resp_queue = queue.Queue(); self.pending_requests[req_id] = resp_queue
SR_Register(t) ==
    /\ rpc[t].pc = "register"
    /\ resp_queue' = [resp_queue EXCEPT ![t] = <<>>]
    /\ pending_requests' = [pending_requests EXCEPT ![rpc[t].conn] =
                               With(Orphaned(@, t), rpc[t].req_id, t)]
    /\ rpc' = [rpc EXCEPT ![t].pc = "write"]
    /\ UNCHANGED <<threads, request_id, tools, is_connected, process, procs,
                   readers, task, assigned, emitted>>
    /\ UNCHANGED engineVars

\* what the frame leaves in the pending table when it returns without the del
LeftBehind(p, t) == Orphaned(p, t)

\* self.process.stdin.write(json_str + "\n"); flush(); except: return None
SR_Write(t) ==
    LET c == rpc[t].conn IN
    /\ rpc[t].pc = "write"
    /\ IF Alive(c)
       THEN /\ procs' = [procs EXCEPT ![c][process[c]].stdin =
                            Append(@, RequestLine(rpc[t].req_id, rpc[t].method))]
            /\ rpc' = [rpc EXCEPT ![t].pc = "wait", ![t].waited = 0]
            /\ UNCHANGED pending_requests
       ELSE /\ rpc' = [rpc EXCEPT ![t].pc = "ret", ![t].ret = NoneVal,
                                  ![t].how = "write_failed"]
            /\ pending_requests' = [pending_requests EXCEPT ![c] = LeftBehind(@, t)]
            /\ UNCHANGED procs
    /\ UNCHANGED <<threads, request_id, tools, is_connected, process, readers,
                   resp_queue, task, assigned, emitted>>
    /\ UNCHANGED engineVars

\* the write of a request line as the pipe sees it when callers share the
\* connection: nothing in send_request keeps a second writer out while the
\* line is on its way, so its first bytes and its last are two steps
SR_WriteHead(t) ==
    LET c == rpc[t].conn IN
    /\ rpc[t].pc = "write"
    /\ IF Alive(c)
       THEN LET written == procs[c][process[c]].stdin
                open == written # <<>> /\ written[Len(written)].kind = "part" IN
            /\ procs' = [procs EXCEPT ![c][process[c]].stdin =
                            Append(@, IF open THEN GarbledLine
                                      ELSE PartLine(rpc[t].req_id, rpc[t].method))]
            /\ rpc' = [rpc EXCEPT ![t].pc = "writing", ![t].tmp = Len(written) + 1]
            /\ UNCHANGED pending_requests
       ELSE /\ rpc' = [rpc EXCEPT ![t].pc = "ret", ![t].ret = NoneVal,
                                  ![t].how = "write_failed"]
            /\ pending_requests' = [pending_requests EXCEPT ![c] = LeftBehind(@, t)]
            /\ UNCHANGED procs
    /\ UNCHANGED <<threads, request_id, tools, is_connected, process, readers,
                   resp_queue, task, assigned, emitted>>
    /\ UNCHANGED engineVars

\* the rest of the line and the flush: the line is whole if nobody wrote
\* since its first part
SR_WriteTail(t) ==
    LET c == rpc[t].conn
        k == rpc[t].tmp
        written == procs[c][process[c]].stdin IN
    /\ rpc[t].pc = "writing"
    /\ procs' = [procs EXCEPT ![c][process[c]].stdin[k] =
                    IF written[k].kind = "part" /\ k = Len(written)
                    THEN RequestLine(rpc[t].req_id, rpc[t].method)
                    ELSE GarbledLine]
    /\ IF Alive(c)
       THEN /\ rpc' = [rpc EXCEPT ![t].pc = "wait", ![t].waited = 0, ![t].tmp = 0]
            /\ UNCHANGED pending_requests
       ELSE /\ rpc' = [rpc EXCEPT ![t].pc = "ret", ![t].ret = NoneVal,
                                  ![t].how = "write_failed", ![t].tmp = 0]
            /\ pending_requests' = [pending_requests EXCEPT ![c] = LeftBehind(@, t)]
    /\ UNCHANGED <<threads, request_id, tools, is_connected, process, readers,
                   resp_queue, task, assigned, emitted>>
    /\ UNCHANGED engineVars

\* what send_request returns for the response taken from the queue
ResponseValue(m) == IF m.kind = "error" THEN NoneVal ELSE m.body

\* the response is returned and its slot is left in the table
SR_ReceiveKeepsSlot(t) ==
    LET c == rpc[t].conn
        m == Head(resp_queue[t]) IN
    /\ rpc[t].pc = "wait"
    /\ resp_queue[t] # <<>>
    /\ resp_queue' = [resp_queue EXCEPT ![t] = <<>>]
    /\ pending_requests' = pending_requests
    /\ rpc' = [rpc EXCEPT ![t].pc = "ret", ![t].ret = ResponseValue(m),
                  ![t].how = IF m.kind = "error" THEN "error" ELSE "result",
                  ![t].got = m, ![t].waited = 0]
    /\ UNCHANGED <<threads, request_id, tools, is_connected, process, procs,
                   readers, task, assigned, emitted>>
    /\ UNCHANGED engineVars

\* response = resp_queue.get(timeout=10) returned an item;
\* del self.pending_requests[req_id]; return None or response.get("result");
\* the queue is a local of the frame and goes with it
SR_Receive(t) ==
    LET c == rpc[t].conn
        m == Head(resp_queue[t]) IN
    /\ rpc[t].pc = "wait"
    /\ resp_queue[t] # <<>>
    /\ resp_queue' = [resp_queue EXCEPT ![t] = <<>>]
    /\ IF rpc[t].req_id \in DOMAIN pending_requests[c]
       THEN /\ pending_requests' = [pending_requests EXCEPT ![c] =
                                       Orphaned(Without(@, rpc[t].req_id), t)]
            /\ rpc' = [rpc EXCEPT ![t].pc = "ret", ![t].ret = ResponseValue(m),
                          ![t].how = IF m.kind = "error" THEN "error" ELSE "result",
                          ![t].got = m, ![t].waited = 0]
       ELSE \* KeyError out of the del: it is not queue.Empty, so it propagates
            /\ pending_requests' = [pending_requests EXCEPT ![c] = Orphaned(@, t)]
            /\ rpc' = [rpc EXCEPT ![t].pc = "ret", ![t].ret = NoneVal,
                                  ![t].how = "raised", ![t].got = m,
                                  ![t].waited = 0]
    /\ UNCHANGED <<threads, request_id, tools, is_connected, process, procs,
                   readers, task, assigned, emitted>>
    /\ UNCHANGED engineVars

\* resp_queue.get() called without a timeout
TimedOutNever(waited) == FALSE

\* the wait of resp_queue.get(timeout=10) is over
TimedOut(waited) == waited >= TIMEOUT

\* a timeout that also gives the connection up
SR_TimeoutTerminates(t) ==
    LET c == rpc[t].conn IN
    /\ rpc[t].pc = "wait"
    /\ resp_queue[t] = <<>>
    /\ TimedOut(rpc[t].waited)
    /\ rpc' = [rpc EXCEPT ![t].pc = "ret", ![t].ret = NoneVal, ![t].how = "timeout"]
    /\ pending_requests' = [pending_requests EXCEPT ![c] = LeftBehind(@, t)]
    /\ procs' = [procs EXCEPT ![c] =
                    IF process[c] = 0 THEN @ ELSE [@ EXCEPT ![process[c]].alive = FALSE]]
    /\ UNCHANGED <<threads, request_id, tools, is_connected, process,
                   readers, resp_queue, task, assigned, emitted>>
    /\ UNCHANGED engineVars

\* except queue.Empty: return None
SR_Timeout(t) ==
    LET c == rpc[t].conn IN
    /\ rpc[t].pc = "wait"
    /\ resp_queue[t] = <<>>
    /\ TimedOut(rpc[t].waited)
    /\ rpc' = [rpc EXCEPT ![t].pc = "ret", ![t].ret = NoneVal, ![t].how = "timeout"]
    /\ pending_requests' = [pending_requests EXCEPT ![c] = LeftBehind(@, t)]
    /\ UNCHANGED <<threads, request_id, tools, is_connected, process, procs,
                   readers, resp_queue, task, assigned, emitted>>
    /\ UNCHANGED engineVars

\* one unit of time passes for every frame blocked in resp_queue.get
Tick ==
    /\ \E t \in threads : rpc[t].pc = "wait"
    /\ \A t \in threads : rpc[t].pc = "wait" => rpc[t].waited < TIMEOUT
    /\ rpc' = [t \in ThreadIds |->
                 IF t \in threads /\ rpc[t].pc = "wait"
                 THEN [rpc[t] EXCEPT !.waited = @ + TickStep] ELSE rpc[t]]
    /\ UNCHANGED <<threads, connVars, resp_queue, task>>
    /\ UNCHANGED engineVars

(***************************************************************************)
(* MCPClient.connect, send_notification, _refresh_tools, call_tool, close. *)
(***************************************************************************)
\* the task of a thread is over with this result, and its frame is gone
Finish(t, result) ==
    /\ task' = [task EXCEPT ![t].op = "done", ![t].result = result]
    /\ rpc' = [rpc EXCEPT ![t] = IdleFrame]

\* the children a connection no longer writes to: self.process was overwritten
Abandoned(ps) == [g \in DOMAIN ps |-> [ps[g] EXCEPT !.stdin = <<>>]]

\* subprocess.Popen(...) succeeded: the two threads are started and
\* send_request("initialize") is entered
ConnectSpawned(t, c) ==
    /\ procs' = [procs EXCEPT ![c] = Append(Abandoned(@), NewProcess)]
    /\ process' = [process EXCEPT ![c] = Len(procs[c]) + 1]
    /\ readers' = [readers EXCEPT ![c] =
                      Append(@, [pc |-> "readline", gen |-> Len(procs[c]) + 1,
                                 msg |-> NoteLine])]
    /\ BeginRequest(t, c, "initialize")
    /\ UNCHANGED <<threads, request_id, pending_requests, tools, is_connected,
                   resp_queue, assigned, emitted>>

\* self.process.stdin.write(...) of send_notification: a failure is swallowed
Notified(c) ==
    IF Alive(c)
    THEN [procs EXCEPT ![c][process[c]].stdin =
             Append(@, NotificationLine("notifications/initialized"))]
    ELSE procs

\* the test of init_result left out
InitAcceptedAlways(frame) == TRUE

\* if init_result: the handshake went through
InitAccepted(frame) == frame.how = "result" /\ Truthy(frame.ret)

\* connect() after send_request("initialize") returned
ConnectAfterInit(t) ==
    LET c == rpc[t].conn IN
    /\ task[t].op = "connect"
    /\ rpc[t].pc = "ret"
    /\ rpc[t].method = "initialize"
    /\ IF InitAccepted(rpc[t])
       THEN /\ procs' = Notified(c)
            /\ is_connected' = [is_connected EXCEPT ![c] = TRUE]
            /\ BeginRequest(t, c, "tools/list")
            /\ UNCHANGED task
       ELSE /\ Finish(t, "False")
            /\ UNCHANGED <<procs, is_connected>>
    /\ UNCHANGED <<threads, request_id, pending_requests, tools, process,
                   readers, resp_queue, assigned, emitted>>
    /\ UNCHANGED engineVars

\* if result and "tools" in result
ListsTools(frame) == frame.how = "result" /\ Truthy(frame.ret) /\ frame.ret.kind = "tools"

\* _refresh_tools() after send_request("tools/list") returned, and the end of connect()
ConnectAfterList(t) ==
    LET c == rpc[t].conn IN
    /\ task[t].op = "connect"
    /\ rpc[t].pc = "ret"
    /\ rpc[t].method = "tools/list"
    /\ tools' = [tools EXCEPT ![c] = IF ListsTools(rpc[t]) THEN rpc[t].ret.tools ELSE @]
    /\ Finish(t, IF rpc[t].how = "raised" THEN "False" ELSE "True")
    /\ UNCHANGED <<threads, request_id, pending_requests, is_connected, process,
                   procs, readers, resp_queue, assigned, emitted>>
    /\ UNCHANGED engineVars

\* close(): if self.process: self.process.terminate()
Terminated(ps, g) == IF g = 0 THEN ps ELSE [ps EXCEPT ![g].alive = FALSE]

(***************************************************************************)
(* The child process: it answers the requests it was given, in any order,  *)
(* writes lines nobody asked for, or exits.                                *)
(***************************************************************************)
RequestedIds(p) == { p.stdin[k].id : k \in { j \in DOMAIN p.stdin : p.stdin[j].kind = "request" } }

\* the ids whose callers are blocked in resp_queue.get on connection c
Awaited(c) == { rpc[t].req_id : t \in { u \in threads : rpc[u].pc = "wait" /\ rpc[u].conn = c } }

\* a line carrying id i is on its way: in a pipe, in a reader's hands, in a queue
InFlight(c, i) ==
    \/ \E g \in DOMAIN procs[c] : \E k \in DOMAIN procs[c][g].stdout :
          HasId(procs[c][g].stdout[k]) /\ procs[c][g].stdout[k].id = i
    \/ \E r \in DOMAIN readers[c] : readers[c][r].pc = "put" /\ readers[c][r].msg.id = i
    \/ \E t \in threads : \E k \in DOMAIN resp_queue[t] :
          rpc[t].conn = c /\ resp_queue[t][k].id = i

\* the answers the child may give now: one to each request it has read whose
\* caller still waits
ResultBodies ==
    IF backend.mode = "content" THEN Bodies \cup ContentBodies ELSE Bodies

Answers(c) ==
    LET ids == { i \in RequestedIds(procs[c][process[c]]) \cap Awaited(c) : ~InFlight(c, i) } IN
    { ResultLine(i, b) : i \in ids, b \in ResultBodies } \cup { ErrorLine(i) : i \in ids }

\* lines nobody asked for: a notification, text that is no JSON, JSON that
\* is no object, an id that was never requested, one more answer to a request it has read
Junk(p) ==
    { NoteLine, GarbageLine, ScalarLine, ResultLine(StrayId, EmptyBody) }
        \cup { ResultLine(i, EmptyBody) : i \in RequestedIds(p) }

\* the child answers one of the requests it has read, in any order
ChildAnswer(c) ==
    LET g == process[c] IN
    /\ Alive(c)
    /\ procs[c][g].stdout = <<>>
    /\ \E line \in Answers(c) :
          procs' = [procs EXCEPT ![c][g].stdout = Append(@, line)]
    /\ UNCHANGED <<threads, request_id, pending_requests, tools, is_connected,
                   process, readers, rpc, resp_queue, task, assigned, emitted>>
    /\ UNCHANGED engineVars

\* the child writes a line nobody asked for
ChildJunk(c) ==
    LET g == process[c] IN
    /\ Alive(c)
    /\ procs[c][g].stdout = <<>>
    /\ emitted[c] < MaxJunk
    /\ \E line \in Junk(procs[c][g]) :
          procs' = [procs EXCEPT ![c][g].stdout = Append(@, line)]
    /\ emitted' = [emitted EXCEPT ![c] = @ + 1]
    /\ UNCHANGED <<threads, request_id, pending_requests, tools, is_connected,
                   process, readers, rpc, resp_queue, task, assigned>>
    /\ UNCHANGED engineVars

\* the child exits on its own
ChildExit(c) ==
    /\ Alive(c)
    /\ procs' = [procs EXCEPT ![c] = Terminated(@, process[c])]
    /\ UNCHANGED <<threads, request_id, pending_requests, tools, is_connected,
                   process, readers, rpc, resp_queue, task, assigned, emitted>>
    /\ UNCHANGED engineVars

(***************************************************************************)
(* MCPClient._read_loop, reader thread r of connection c.                  *)
(***************************************************************************)
\* while self.process and self.process.poll() is None: the reader evaluates the
\* condition as soon as it has handled a line, and blocks in readline() or ends
LoopTop(c) ==
    IF Alive(c) THEN [pc |-> "readline", gen |-> process[c], msg |-> NoteLine]
                ELSE [pc |-> "exited", gen |-> 0, msg |-> NoteLine]

\* "id" in message and message["id"] in self.pending_requests
Matches(p, m) == HasId(m) /\ m.id \in DOMAIN p

\* line = self.process.stdout.readline(); json.loads(line); the membership test
ReadLine(c, r) ==
    LET g == readers[c][r].gen IN
    /\ r \in DOMAIN readers[c]
    /\ readers[c][r].pc = "readline"
    /\ IF procs[c][g].stdout # <<>>
       THEN LET m == Head(procs[c][g].stdout) IN
            /\ procs' = [procs EXCEPT ![c][g].stdout = Tail(@)]
            /\ readers' = [readers EXCEPT ![c][r] =
                  IF m.kind = "scalar"
                  THEN \* TypeError out of "id" in message: only
                       \* json.JSONDecodeError is caught, and the thread ends
                       [pc |-> "dead", gen |-> 0, msg |-> m]
                  ELSE IF m.kind # "garbage" /\ Matches(pending_requests[c], m)
                  THEN [@ EXCEPT !.pc = "put", !.msg = m]
                  ELSE LoopTop(c)]
       ELSE \* end of file: readline() returns '' once the child is gone
            /\ ~procs[c][g].alive
            /\ readers' = [readers EXCEPT ![c][r] = LoopTop(c)]
            /\ UNCHANGED procs
    /\ UNCHANGED <<threads, request_id, pending_requests, tools, is_connected,
                   process, rpc, resp_queue, task, assigned, emitted>>
    /\ UNCHANGED engineVars

\* the oldest pending queue, whatever id the line carries
SlotForOldest(p, m) == p[CHOOSE i \in DOMAIN p : \A j \in DOMAIN p : i <= j]

\* self.pending_requests[message["id"]]
SlotFor(p, m) == p[m.id]

\* self.pending_requests[message["id"]].put(message)
ReadPut(c, r) ==
    LET m == readers[c][r].msg
        p == pending_requests[c] IN
    /\ r \in DOMAIN readers[c]
    /\ readers[c][r].pc = "put"
    /\ IF m.id \in DOMAIN p
       THEN /\ readers' = [readers EXCEPT ![c][r] = LoopTop(c)]
            /\ resp_queue' = IF SlotFor(p, m) \in ThreadIds
                             THEN [resp_queue EXCEPT ![SlotFor(p, m)] = Append(@, m)]
                             ELSE resp_queue
       ELSE \* KeyError: the slot was removed after the test; the thread ends
            /\ readers' = [readers EXCEPT ![c][r] =
                              [pc |-> "dead", gen |-> 0, msg |-> m]]
            /\ UNCHANGED resp_queue
    /\ UNCHANGED <<threads, request_id, pending_requests, tools, is_connected,
                   process, procs, rpc, task, assigned, emitted>>
    /\ UNCHANGED engineVars

(***************************************************************************)
(* ToolRegistry.execute, called by the engine on the main thread.          *)
(***************************************************************************)
\* the registered clients that are connected and list a tool of this name
Owners(tool_name) ==
    { k \in DOMAIN mcp_clients :
        /\ is_connected[mcp_clients[k]]
        /\ \E j \in DOMAIN tools[mcp_clients[k]] : tools[mcp_clients[k]][j] = tool_name }

\* the last of them
OwnerLast(tool_name) ==
    mcp_clients[CHOOSE k \in Owners(tool_name) : \A j \in Owners(tool_name) : k >= j]

\* the first of them, in the order of registration
Owner(tool_name) ==
    mcp_clients[CHOOSE k \in Owners(tool_name) : \A j \in Owners(tool_name) : k <= j]

\* the client is left out once its server is gone
ExportsWhileAlive(c) == is_connected[c] /\ Alive(c)

\* if client.is_connected, in get_tool_definitions
Exports(c) == is_connected[c]

\* the client exports only its first tool
ClientDefinitionsFirst(c) == IF tools[c] = <<>> THEN <<>> ELSE <<tools[c][1]>>

\* MCPClient.get_tool_definitions(): one definition per discovered tool,
\* under the name the server gave
ClientDefinitions(c) == tools[c]

\* for client in self.mcp_clients: definitions.extend(...), up to client k
RECURSIVE RemoteDefinitions(_)
RemoteDefinitions(k) ==
    IF k = 0 THEN <<>>
    ELSE RemoteDefinitions(k - 1) \o
         (IF Exports(mcp_clients[k]) THEN ClientDefinitions(mcp_clients[k]) ELSE <<>>)

\* ToolRegistry.get_tool_definitions(): the names of the function declarations
ToolDefinitions == LocalToolOrder \o RemoteDefinitions(Len(mcp_clients))

\* if config.SAFE_MODE and tool_name in SENSITIVE_TOOLS
AsksFirst(tool_name) == SAFE_MODE /\ tool_name \in SENSITIVE_TOOLS

\* the calls taken from the end of the list
CurrentCallLast == chat.function_calls[Len(chat.function_calls) - Len(chat.fr_parts)]

\* the function call the for loop of send_message is at
CurrentCall == chat.function_calls[Len(chat.fr_parts) + 1]

\* result = client.call_tool(tool_name, args): send_request is entered
EnterCallTool(c) ==
    /\ BeginRequest("main", c, "tools/call")
    /\ task' = [task EXCEPT !["main"] = [op |-> "call_tool", conn |-> c, result |-> "none"]]

\* what self.tools[tool_name](**args) may give back
ToolResults ==
    IF backend.mode = "preview" THEN { Chars(n) : n \in ResultLens } ELSE { <<"done">> }

\* how the call of the function may end; the tools of the session that runs
\* out of turns do not fail
ToolOutcomes ==
    IF backend.mode = "again" THEN { "returns" } ELSE { "returns", "raises" }

\* stream_callback("[Running tool: ...]") and execute(tool_name, args) up to
\* its return or to the next point it blocks at
Execute ==
    LET tool_name == CurrentCall.name IN
    /\ chat.pc = "tools"
    /\ exec.pc = "idle"
    /\ Len(chat.fr_parts) < Len(chat.function_calls)
    /\ \E typed \in UserAnswers, outcome \in ToolOutcomes, result \in ToolResults :
          LET frame == [IdleExec EXCEPT !.tool_name = tool_name,
                                        !.issued = Issued("c1"),
                                        !.sent = [c \in ConnIds |-> Len(assigned[c])],
                                        !.typed = IF AsksFirst(tool_name)
                                                  THEN <<typed>> ELSE <<>>] IN
          IF AsksFirst(tool_name) /\ Refused(Confirmation(typed))
          THEN /\ exec' = [frame EXCEPT !.pc = "ret", !.ret = UserDenied]
               /\ UNCHANGED <<rpc, task>>
          ELSE IF tool_name \in LocalTools
          THEN /\ exec' = [frame EXCEPT !.pc = "ret", !.invoked = TRUE,
                              !.raised = (outcome = "raises"),
                              !.ret = IF outcome = "returns" THEN result
                                      ELSE ExecutionError(tool_name, "e")]
               /\ UNCHANGED <<rpc, task>>
          ELSE IF Owners(tool_name) # {}
          THEN IF SAFE_MODE
               THEN /\ exec' = [frame EXCEPT !.pc = "confirm"]
                    /\ UNCHANGED <<rpc, task>>
               ELSE /\ exec' = [frame EXCEPT !.pc = "call_tool",
                                              !.client = Owner(tool_name)]
                    /\ EnterCallTool(Owner(tool_name))
          ELSE /\ exec' = [frame EXCEPT !.pc = "ret", !.ret = NotFound(tool_name)]
               /\ UNCHANGED <<rpc, task>>
    /\ chat' = [chat EXCEPT !.stream = Append(@, RunningTool(tool_name))]
    /\ UNCHANGED <<threads, connVars, resp_queue, SAFE_MODE, session,
                   mcp_clients, history, backend>>

\* the confirmation asked for a remote tool: if config.SAFE_MODE: input(...)
ExecuteConfirm ==
    /\ exec.pc = "confirm"
    /\ \E typed \in UserAnswers :
          IF RefusedRemote(Confirmation(typed))
          THEN /\ exec' = [exec EXCEPT !.pc = "ret", !.ret = UserDenied,
                                       !.typed = Append(@, typed)]
               /\ UNCHANGED <<rpc, task>>
          ELSE /\ exec' = [exec EXCEPT !.pc = "call_tool", !.typed = Append(@, typed),
                                       !.client = Owner(exec.tool_name)]
               /\ EnterCallTool(Owner(exec.tool_name))
    /\ UNCHANGED <<threads, connVars, resp_queue, SAFE_MODE, session,
                   mcp_clients, history, chat, backend>>

\* call_tool has returned: the text of the result, or str(result); an
\* exception out of send_request or out of the scan of the content leaves
\* execute() and send_message()
ExecuteRemoteDone ==
    /\ exec.pc = "call_tool"
    /\ rpc["main"].pc = "ret"
    /\ IF rpc["main"].how = "raised" \/ RemoteRaises(rpc["main"].ret)
       THEN /\ exec' = IdleExec
            /\ chat' = [IdleChat EXCEPT !.pc = "raised"]
       ELSE /\ exec' = [exec EXCEPT !.pc = "ret", !.how = rpc["main"].how,
                                    !.ret = RemoteResult(rpc["main"].ret)]
            /\ UNCHANGED chat
    /\ rpc' = [rpc EXCEPT !["main"] = IdleFrame]
    /\ task' = [task EXCEPT !["main"] = IdleTask]
    /\ UNCHANGED <<threads, connVars, resp_queue, SAFE_MODE, session,
                   mcp_clients, history, backend>>

(***************************************************************************)
(* ChatSession.send_message.                                               *)
(***************************************************************************)
\* the test of the loop passes one time too many
LoopHeadInclusive(frame) ==
    IF frame.current_turn <= max_turns
    THEN [frame EXCEPT !.current_turn = @ + 1, !.pc = "generate"]
    ELSE [frame EXCEPT !.pc = "done", !.ret = MaxTurnsReached]

\* while current_turn < max_turns: current_turn += 1 ... and, past the loop,
\* return "Error: Max tool execution turns reached."
LoopHead(frame) ==
    IF frame.current_turn < max_turns
    THEN [frame EXCEPT !.current_turn = @ + 1, !.pc = "generate"]
    ELSE [frame EXCEPT !.pc = "done", !.ret = MaxTurnsReached]

\* the Model Backend is called once more if the loop goes on
Asked(frame) ==
    IF frame.pc = "generate" THEN [backend EXCEPT !.given = @ + 1] ELSE backend

\* the messages sent so far in the session
Messages ==
    Cardinality({ k \in DOMAIN history :
                    history[k].role = "user" /\ history[k].parts[1].kind = "text" })

\* may the model take one more message
MayAsk ==
    \/ backend.mode = "calls"
    \/ backend.mode = "again" /\ Messages < MaxMessages
    \/ backend.mode \notin {"calls", "again"} /\ backend.given < MaxCalls

\* the turns used by earlier calls count against the new call
SendMessageSpent ==
    LET spent == [IdleChat EXCEPT !.current_turn =
                     IF backend.given < max_turns THEN backend.given ELSE max_turns] IN
    /\ chat.pc = "idle"
    /\ task["main"].op = "idle"
    /\ MayAsk
    /\ backend' = Asked(LoopHead(spent))
    /\ history' = Append(history, Turn("user", <<TextPart("message")>>))
    /\ chat' = LoopHead(spent)
    /\ UNCHANGED <<threads, connVars, rpc, resp_queue, task, SAFE_MODE,
                   session, mcp_clients, exec>>

\* self.history.append(user_content) and the first test of the loop
SendMessage ==
    /\ chat.pc = "idle"
    /\ task["main"].op = "idle"
    /\ MayAsk
    /\ backend' = Asked(LoopHead(IdleChat))
    /\ history' = Append(history, Turn("user", <<TextPart("message")>>))
    /\ chat' = LoopHead(IdleChat)
    /\ UNCHANGED <<threads, connVars, rpc, resp_queue, task, SAFE_MODE,
                   session, mcp_clients, exec>>

\* what the Model Backend may answer now
Responses ==
    IF backend.mode = "calls"
    THEN { Answer("", LoopCalls, <<>>) }
    ELSE IF backend.mode = "again"
    THEN IF backend.given <= max_turns
         THEN { Answer("", LoopCalls, <<>>) }
         ELSE { Failed, Answer("final", <<>>, <<>>), Answer("", LoopCalls, <<>>) }
    ELSE IF backend.mode = "parts"
    THEN { Failed } \cup
         { Answer("final", <<>>, sig) : sig \in ThoughtSignatures } \cup
         { Answer(text, calls, sig) :
             text \in {"", "t"}, sig \in ThoughtSignatures,
             calls \in IF backend.given < MaxCalls THEN CallLists ELSE {} }
    ELSE { Failed, Answer("final", <<>>, <<>>) } \cup
         { Answer(text, calls, <<>>) :
             text \in {""}, calls \in IF backend.given < MaxCalls THEN CallLists ELSE {} }

\* the parts of the model turn that asks for tools
FcParts(response) ==
    (IF response.text # "" THEN <<TextPart(response.text)>> ELSE <<>>) \o
    [k \in DOMAIN response.function_calls |->
        FunctionCallPart(response.function_calls[k], response.thought_signature)]

\* response = self._generate_with_history() and what follows up to the for
\* loop that runs the tools
Generate ==
    /\ chat.pc = "generate"
    /\ \E response \in Responses :
          IF ~response.success
          THEN /\ chat' = [chat EXCEPT !.pc = "done", !.ret = BackendError("e"),
                                       !.calls = @ + 1, !.response = response]
               /\ UNCHANGED history
          ELSE IF response.function_calls = <<>>
          THEN /\ history' = Append(history, Turn("model", <<TextPart(response.text)>>))
               /\ chat' = [chat EXCEPT !.pc = "done", !.ret = <<response.text>>,
                                       !.calls = @ + 1, !.response = response]
          ELSE /\ history' = Append(history, Turn("model", FcParts(response)))
               /\ chat' = [chat EXCEPT !.pc = "tools", !.calls = @ + 1,
                              !.function_calls = response.function_calls,
                              !.fr_parts = <<>>, !.response = response,
                              !.stream = <<>>]
    /\ UNCHANGED <<threads, connVars, rpc, resp_queue, task, SAFE_MODE,
                   session, mcp_clients, exec, backend>>

\* the newest result put in front
CollectedFront(parts, part) == <<part>> \o parts

\* fr_parts.append(...)
Collected(parts, part) == Append(parts, part)

\* tool_result = self.tools.execute(...) has returned: the functionResponse
\* part is built and collected, and the preview is given to the stream callback
ToolDone ==
    /\ chat.pc = "tools"
    /\ exec.pc = "ret"
    /\ chat' = [chat EXCEPT !.fr_parts =
                   Collected(@, FunctionResponsePart(exec.tool_name, exec.ret)),
                            !.stream = Append(@, ResultShown(exec.tool_name, exec.ret))]
    /\ exec' = IdleExec
    /\ UNCHANGED <<threads, connVars, rpc, resp_queue, task, SAFE_MODE,
                   session, mcp_clients, history, backend>>

\* self.history.append({"role": "user", "parts": fr_parts}) and the next test
\* of the loop
EndRound ==
    /\ chat.pc = "tools"
    /\ exec.pc = "idle"
    /\ Len(chat.fr_parts) = Len(chat.function_calls)
    /\ history' = Append(history, Turn("user", chat.fr_parts))
    /\ chat' = LoopHead([chat EXCEPT !.rounds = @ + 1, !.function_calls = <<>>,
                                     !.fr_parts = <<>>])
    /\ backend' = Asked(chat')
    /\ UNCHANGED <<threads, connVars, rpc, resp_queue, task, SAFE_MODE,
                   session, mcp_clients, exec>>

\* send_message has returned to main(), which prints the answer and prompts
Return ==
    /\ chat.pc = "done"
    /\ chat' = IdleChat
    /\ UNCHANGED <<threads, connVars, rpc, resp_queue, task, SAFE_MODE,
                   session, mcp_clients, history, exec, backend>>

\* an exception came out of send_message: main() prints "Error: ..." and
\* prompts again
ReportError ==
    /\ chat.pc = "raised"
    /\ chat' = IdleChat
    /\ UNCHANGED <<threads, connVars, rpc, resp_queue, task, SAFE_MODE,
                   session, mcp_clients, history, exec, backend>>

\* Ctrl-C while send_message runs: KeyboardInterrupt unwinds every frame, and
\* main() prints "Generation cancelled by user." and prompts again
Interrupt ==
    /\ chat.pc \in {"generate", "tools"}
    /\ chat' = IdleChat
    /\ exec' = IdleExec
    /\ rpc' = [rpc EXCEPT !["main"] = IdleFrame]
    /\ task' = [task EXCEPT !["main"] = IdleTask]
    /\ resp_queue' = [resp_queue EXCEPT !["main"] = <<>>]
    /\ pending_requests' = [c \in ConnIds |-> Orphaned(pending_requests[c], "main")]
    /\ UNCHANGED <<threads, request_id, tools, is_connected, process, procs,
                   readers, assigned, emitted, SAFE_MODE, session, mcp_clients,
                   history, backend>>

(***************************************************************************)
(* The commands of main() that the engine and the registry depend on.      *)
(***************************************************************************)
\* /safe: config.SAFE_MODE = not config.SAFE_MODE
CmdSafe ==
    /\ chat.pc = "idle"
    /\ task["main"].op = "idle"
    /\ SAFE_MODE' = ~SAFE_MODE
    /\ session' = [session EXCEPT !.flips = 1 - @]
    /\ UNCHANGED <<threads, connVars, rpc, resp_queue, task, mcp_clients,
                   history, chat, exec, backend>>

\* /clear: chat = ChatSession(client, model=model); the registry and the
\* configuration are those of the module, and stay
CmdClear ==
    /\ chat.pc = "idle"
    /\ task["main"].op = "idle"
    /\ session.id < MaxSessions
    /\ session' = [id |-> session.id + 1, flips |-> 0]
    /\ history' = <<>>
    /\ UNCHANGED <<threads, connVars, rpc, resp_queue, task, SAFE_MODE,
                   mcp_clients, chat, exec, backend>>

\* /mcp connect: registry.register_mcp(mcp_client) if mcp_client.connect()
CmdMcpConnected ==
    /\ chat.pc = "idle"
    /\ task["main"].op = "done"
    /\ mcp_clients' = IF task["main"].result = "True"
                      THEN Append(mcp_clients, task["main"].conn) ELSE mcp_clients
    /\ task' = [task EXCEPT !["main"] = IdleTask]
    /\ UNCHANGED <<threads, connVars, rpc, resp_queue, SAFE_MODE, session,
                   history, chat, exec, backend>>

(***************************************************************************)
(* Callers of the client's public methods: connect(), call_tool(), close() *)
(***************************************************************************)
Free(t) == t \in threads /\ task[t].op \in {"idle", "done"}

\* connect(): Popen succeeded, or it raised and connect() returned False
ConnectCalled(t, c) ==
    \/ /\ ConnectSpawned(t, c)
       /\ task' = [task EXCEPT ![t] = [op |-> "connect", conn |-> c, result |-> "none"]]
    \/ /\ Issued(c) < MaxReq
       /\ task' = [task EXCEPT ![t] = [op |-> "done", conn |-> c, result |-> "False"]]
       /\ UNCHANGED <<threads, connVars, rpc, resp_queue>>

\* mcp_client.connect() on a fresh MCPClient object
CallConnect(t, c) ==
    /\ Free(t)
    /\ process[c] = 0
    /\ ConnectCalled(t, c)
    /\ UNCHANGED engineVars

\* mcp_client.connect() again on an object that has spawned a child before
CallReconnect(t, c) ==
    /\ Free(t)
    /\ process[c] # 0
    /\ Len(procs[c]) < MaxSpawn
    /\ ConnectCalled(t, c)
    /\ UNCHANGED engineVars

\* client.call_tool(name, arguments), on a client whose handshake went through
CallTool(t, c) ==
    /\ Free(t)
    /\ is_connected[c]
    /\ BeginRequest(t, c, "tools/call")
    /\ task' = [task EXCEPT ![t] = [op |-> "call_tool", conn |-> c, result |-> "none"]]
    /\ UNCHANGED <<threads, connVars, resp_queue>>
    /\ UNCHANGED engineVars

\* call_tool returns what send_request returned
CallToolReturn(t) ==
    /\ task[t].op = "call_tool"
    /\ rpc[t].pc = "ret"
    /\ Finish(t, "returned")
    /\ UNCHANGED <<threads, connVars, resp_queue>>
    /\ UNCHANGED engineVars

\* mcp_client.close()
CallClose(t, c) ==
    /\ Free(t)
    /\ process[c] # 0
    /\ procs[c][process[c]].alive
    /\ procs' = [procs EXCEPT ![c] = Terminated(@, process[c])]
    /\ UNCHANGED <<threads, request_id, pending_requests, tools, is_connected,
                   process, readers, rpc, resp_queue, task, assigned, emitted>>
    /\ UNCHANGED engineVars

SendRequestStep(t) ==
    \/ SR_Load(t) \/ SR_Store(t) \/ SR_Read(t) \/ SR_Register(t)
    \/ SR_Write(t) \/ SR_Receive(t) \/ SR_Timeout(t)

ClientStep(t) ==
    \/ SendRequestStep(t)
    \/ ConnectAfterInit(t)
    \/ ConnectAfterList(t)

Background ==
    \/ Tick
    \/ \E c \in OneConn : ChildAnswer(c) \/ ChildJunk(c) \/ ChildExit(c)
    \/ \E c \in OneConn, r \in 1..MaxSpawn : ReadLine(c, r) \/ ReadPut(c, r)

NextRpc ==
    \/ \E t \in ThreadIds : ClientStep(t)
    \/ \E t \in ThreadIds : CallToolReturn(t)
    \/ \E t \in ThreadIds, c \in OneConn : CallConnect(t, c) \/ CallTool(t, c) \/ CallClose(t, c)
    \/ Background

\* the same, with connect() called again on the same object and a child that
\* writes no line nobody asked for
NextReconnect ==
    \/ \E t \in ThreadIds : ClientStep(t)
    \/ \E t \in ThreadIds : CallToolReturn(t)
    \/ \E t \in ThreadIds, c \in OneConn :
          CallConnect(t, c) \/ CallReconnect(t, c) \/ CallTool(t, c) \/ CallClose(t, c)
    \/ Tick
    \/ \E c \in OneConn : ChildAnswer(c) \/ ChildExit(c)
    \/ \E c \in OneConn, r \in 1..MaxSpawn : ReadLine(c, r) \/ ReadPut(c, r)

\* two callers and a child that stays up and answers in any order, soon enough
\* for no caller to give up
NextConc ==
    \/ \E t \in ThreadIds :
          \/ SR_Load(t) \/ SR_Store(t) \/ SR_Read(t) \/ SR_Register(t)
          \/ SR_WriteHead(t) \/ SR_WriteTail(t) \/ SR_Receive(t)
          \/ ConnectAfterInit(t) \/ ConnectAfterList(t)
    \/ \E t \in ThreadIds : CallToolReturn(t)
    \/ \E c \in OneConn : CallConnect("main", c)
    \/ \E t \in ThreadIds, c \in OneConn : CallTool(t, c)
    \/ \E c \in OneConn : ChildAnswer(c) \/ ChildJunk(c)
    \/ \E c \in OneConn, r \in 1..MaxSpawn : ReadLine(c, r) \/ ReadPut(c, r)

\* one thread calls the client: the program's main thread
InitRpc == InitClient /\ threads = {"main"} /\ backend = [mode |-> "any", given |-> 0]

\* two threads call the same connection object
InitConc == InitClient /\ threads = ThreadIds /\ backend = [mode |-> "any", given |-> 0]

\* /mcp connect <command>: mcp_client.connect() is entered on the new object
CmdMcpConnectTo(c) ==
    /\ chat.pc = "idle"
    /\ task["main"].op = "idle"
    /\ CallConnect("main", c)

\* the command, in a session that connects one server
CmdMcpConnect == \E c \in OneConn : CmdMcpConnectTo(c)

\* a session of main(): commands, messages, the engine, the registry, one MCP
\* client with its child process and reader thread
Next ==
    \/ CmdSafe \/ CmdMcpConnect \/ CmdMcpConnected
    \/ SendMessage \/ Generate \/ Execute \/ ExecuteConfirm \/ ExecuteRemoteDone
    \/ ToolDone \/ EndRound \/ Return \/ ReportError \/ Interrupt
    \/ ClientStep("main")
    \/ Tick
    \/ \E c \in OneConn : ChildAnswer(c) \/ ChildExit(c)
    \/ \E c \in OneConn, r \in 1..MaxSpawn : ReadLine(c, r) \/ ReadPut(c, r)

\* one message, to a Model Backend that asks for a tool in every answer
NextTurns ==
    \/ history = <<>> /\ SendMessage
    \/ Generate \/ Execute \/ ToolDone \/ EndRound \/ Return

\* a session that connects two servers, which answer every request at once,
\* with safe mode left on
NextDispatch ==
    \/ \E c \in ConnIds : CmdMcpConnectTo(c)
    \/ CmdMcpConnected
    \/ SendMessage \/ Generate \/ Execute \/ ExecuteConfirm \/ ExecuteRemoteDone
    \/ ToolDone \/ EndRound \/ Return \/ ReportError
    \/ SR_Load("main") \/ SR_Store("main") \/ SR_Read("main") \/ SR_Register("main")
    \/ SR_Write("main") \/ SR_Receive("main")
    \/ ConnectAfterInit("main") \/ ConnectAfterList("main")
    \/ \E c \in ConnIds : ChildAnswer(c)
    \/ \E c \in ConnIds, r \in 1..MaxSpawn : ReadLine(c, r) \/ ReadPut(c, r)

\* a run of main() with no server: messages, /safe and /clear
NextSessions ==
    \/ CmdSafe \/ CmdClear
    \/ SendMessage \/ Generate \/ Execute \/ ToolDone \/ EndRound \/ Return

\* a run of main() that connects a server and clears the context
NextTeardown ==
    \/ CmdMcpConnect \/ CmdMcpConnected \/ CmdClear
    \/ SR_Load("main") \/ SR_Store("main") \/ SR_Read("main") \/ SR_Register("main")
    \/ SR_Write("main") \/ SR_Receive("main")
    \/ ConnectAfterInit("main") \/ ConnectAfterList("main")
    \/ \E c \in OneConn : ChildAnswer(c) \/ ChildExit(c)
    \/ \E c \in OneConn, r \in 1..MaxSpawn : ReadLine(c, r) \/ ReadPut(c, r)

Init == InitRpc

InitTurns == InitClient /\ threads = {"main"} /\ backend = [mode |-> "calls", given |-> 0]

Spec == Init /\ [][Next]_vars

SpecTurns == InitTurns /\ [][NextTurns]_vars

SpecRpc == InitRpc /\ [][NextRpc]_vars

SpecConc == InitConc /\ [][NextConc]_vars

SpecReconnect == InitRpc /\ [][NextReconnect]_vars

SpecDispatch == InitRpc /\ [][NextDispatch]_vars

SpecSessions == InitRpc /\ [][NextSessions]_vars

SpecTeardown == InitRpc /\ [][NextTeardown]_vars

\* the engine with a Model Backend that gives text, calls and thought
\* signatures in every combination
InitParts == InitClient /\ threads = {"main"} /\ backend = [mode |-> "parts", given |-> 0]

NextParts ==
    \/ SendMessage \/ Generate \/ Execute \/ ToolDone \/ EndRound \/ Return

SpecParts == InitParts /\ [][NextParts]_vars

\* the engine with local tools that give back texts of every length
InitPreview ==
    InitClient /\ threads = {"main"} /\ backend = [mode |-> "preview", given |-> 0]

NextPreview ==
    \/ SendMessage \/ Generate \/ Execute \/ ToolDone \/ EndRound \/ Return

SpecPreview == InitPreview /\ [][NextPreview]_vars

\* a session whose first message runs out of turns: the Model Backend asks
\* for a tool in each of its first max_turns answers, and answers the later
\* messages as it likes
InitAgain == InitClient /\ threads = {"main"} /\ backend = [mode |-> "again", given |-> 0]

NextAgain ==
    \/ SendMessage \/ Generate \/ Execute \/ ToolDone \/ EndRound \/ Return

SpecAgain == InitAgain /\ [][NextAgain]_vars

\* mcp_client.close() called by the program between two messages
CloseBetweenMessages(c) ==
    /\ chat.pc = "idle"
    /\ CallClose("main", c)

\* a session with one server that stays up until the program closes the
\* connection
NextClose ==
    \/ CmdSafe \/ CmdMcpConnect \/ CmdMcpConnected
    \/ \E c \in OneConn : CloseBetweenMessages(c)
    \/ SendMessage \/ Generate \/ Execute \/ ExecuteConfirm \/ ExecuteRemoteDone
    \/ ToolDone \/ EndRound \/ Return \/ ReportError
    \/ SR_Load("main") \/ SR_Store("main") \/ SR_Read("main") \/ SR_Register("main")
    \/ SR_Write("main") \/ SR_Receive("main")
    \/ ConnectAfterInit("main") \/ ConnectAfterList("main")
    \/ \E c \in OneConn : ChildAnswer(c)
    \/ \E c \in OneConn, r \in 1..MaxSpawn : ReadLine(c, r) \/ ReadPut(c, r)

SpecClose == InitRpc /\ [][NextClose]_vars

\* a session with one server that answers tools/call with content lists of
\* every shape
InitContent ==
    InitClient /\ threads = {"main"} /\ backend = [mode |-> "content", given |-> 0]

NextContent ==
    \/ CmdMcpConnect \/ CmdMcpConnected
    \/ SendMessage \/ Generate \/ Execute \/ ExecuteConfirm \/ ExecuteRemoteDone
    \/ ToolDone \/ EndRound \/ Return \/ ReportError
    \/ SR_Load("main") \/ SR_Store("main") \/ SR_Read("main") \/ SR_Register("main")
    \/ SR_Write("main") \/ SR_Receive("main")
    \/ ConnectAfterInit("main") \/ ConnectAfterList("main")
    \/ \E c \in OneConn : ChildAnswer(c)
    \/ \E c \in OneConn, r \in 1..MaxSpawn : ReadLine(c, r) \/ ReadPut(c, r)

SpecContent == InitContent /\ [][NextContent]_vars

\* time passes, and a thread that can leave resp_queue.get does so
SpecRpcLive ==
    /\ InitRpc
    /\ [][NextRpc]_vars
    /\ WF_vars(Tick)
    /\ \A t \in ThreadIds : WF_vars(SR_Timeout(t)) /\ WF_vars(SR_Receive(t))

(***************************************************************************)
(* Properties of the conversation engine and of the registry.              *)
(***************************************************************************)
\* the tools a turn asks for, in order
CallsOf(turn) ==
    LET fcs == SelectSeq(turn.parts, LAMBDA q : q.kind = "functionCall")
    IN  [k \in DOMAIN fcs |-> fcs[k].name]

\* the tools a turn answers for, in order
ResponsesOf(turn) ==
    LET frs == SelectSeq(turn.parts, LAMBDA q : q.kind = "functionResponse")
    IN  [k \in DOMAIN frs |-> frs[k].name]

\* C1: a user turn that holds function responses comes right after a model
\* turn, holds nothing else, and names the tools of that turn's function
\* calls, one response per call and in the same order
C1_ResponsesMatchCalls ==
    \A k \in DOMAIN history :
        (history[k].role = "user" /\ ResponsesOf(history[k]) # <<>>) =>
            /\ k > 1
            /\ history[k - 1].role = "model"
            /\ Len(history[k].parts) = Len(ResponsesOf(history[k]))
            /\ ResponsesOf(history[k]) = CallsOf(history[k - 1])

\* a round of two calls is in the history: the first was denied by the user,
\* the second is a remote call that came back with nothing
C1_Witness ==
    \E k \in DOMAIN history :
        /\ ResponsesOf(history[k]) = <<"write_file", "remote_tool">>
        /\ history[k].parts[1].content = <<"Error: User denied execution.">>
        /\ history[k].parts[2].content = <<"None">>

\* C2: whenever the Model Backend is called, every model turn of the history
\* that asks for tools is followed at once by a user turn with one function
\* response per function call, in the same order
C2_HistoryConsistent ==
    chat.pc = "generate" =>
        \A k \in DOMAIN history :
            (history[k].role = "model" /\ CallsOf(history[k]) # <<>>) =>
                /\ k < Len(history)
                /\ history[k + 1].role = "user"
                /\ ResponsesOf(history[k + 1]) = CallsOf(history[k])

\* C3: with a Model Backend that asks for a tool in every answer, one
\* send_message never calls it an 11th time, and it returns only after exactly
\* 10 calls and 10 tool rounds, with the fixed error string
C3_TenCalls ==
    /\ chat.calls <= 10
    /\ chat.pc = "done" =>
          /\ chat.ret = <<"Error: Max tool execution turns reached.">>
          /\ chat.calls = 10
          /\ chat.rounds = 10
          /\ Len(history) = 21

\* send_message has returned after the tenth round
C3_Witness ==
    /\ chat.pc = "done"
    /\ chat.rounds = 10
    /\ chat.ret = <<"Error: Max tool execution turns reached.">>

\* the user typed y or Y, and around it nothing but blanks
SaysYes(typed) ==
    \E k \in DOMAIN typed :
        /\ typed[k] \in {"y", "Y"}
        /\ \A j \in DOMAIN typed \ {k} : typed[j] = " "

\* C4: with safe mode on, a sensitive local tool is invoked only after the
\* user said yes; after any other answer execute() returns the fixed denial
\* and the tool was not invoked
C4_SensitiveGated ==
    (SAFE_MODE /\ exec.tool_name \in {"run_terminal", "write_file"}) =>
        /\ exec.invoked => (exec.typed # <<>> /\ SaysYes(exec.typed[1]))
        /\ (exec.pc = "ret" /\ exec.typed # <<>> /\ ~SaysYes(exec.typed[1])) =>
              (exec.ret = <<"Error: User denied execution.">> /\ ~exec.invoked)

\* write_file was invoked in safe mode after the user typed " Y "
C4_Witness ==
    /\ SAFE_MODE
    /\ exec.tool_name = "write_file"
    /\ exec.invoked
    /\ exec.typed = << <<" ", "Y", " ">> >>

C10_LocalErrorCaught ==
    /\ [](exec.raised =>
             /\ exec.pc = "ret"
             /\ exec.ret = <<"Error executing ", exec.tool_name, ": ", "e">>
             /\ chat.pc = "tools")
    /\ [][(exec.raised /\ exec' # exec /\ chat'.pc # "idle") =>
             /\ chat'.pc = "tools"
             /\ chat'.function_calls = chat.function_calls
             /\ chat'.fr_parts = Append(chat.fr_parts,
                    [kind |-> "functionResponse", name |-> exec.tool_name,
                     content |-> exec.ret, thoughtSignature |-> <<>>])]_vars

\* read_file raised, and the round went on to the next call, which found no tool
C10_Witness ==
    /\ chat.pc = "tools"
    /\ Len(chat.fr_parts) = 2
    /\ chat.fr_parts[1].content = <<"Error executing ", "read_file", ": ", "e">>
    /\ chat.fr_parts[2].content = <<"Error: Tool '", "missing", "' not found.">>

\* C11: whatever became of a remote tool call (timeout, failed write, error
\* response, a result of any shape), no exception leaves execute(): it returns
\* a text, which send_message collects as the function response of the call
C11_RemoteNeverRaises ==
    /\ chat.pc # "raised"
    /\ (exec.pc = "ret" /\ exec.how # "none") => exec.ret # <<>>

\* C12: the text execute() returns tells how the remote call ended: the text
\* of a call that timed out, str(None), is returned neither for a call whose
\* write failed nor for one the server answered with a result
C12_FailuresDistinct ==
    /\ (exec.pc = "ret" /\ exec.how = "timeout") => exec.ret = <<"None">>
    /\ (exec.pc = "ret" /\ exec.how \in {"write_failed", "result"}) =>
          exec.ret # <<"None">>

\* client c is registered as connected and lists a tool of this name
Offers(c, name) ==
    is_connected[c] /\ \E j \in DOMAIN tools[c] : tools[c][j] = name

\* C13: for a name that is no local tool and that no registered, connected
\* client lists, execute() returns the not-found text, having invoked no
\* implementation and sent no request on any connection
C13_UnknownNotFound ==
    (/\ exec.pc = "ret"
     /\ exec.tool_name \notin {"read_file", "write_file", "list_directory",
                                "run_terminal", "search_files", "web_search"}
     /\ \A k \in DOMAIN mcp_clients : ~Offers(mcp_clients[k], exec.tool_name)) =>
        /\ exec.ret = <<"Error: Tool '", exec.tool_name, "' not found.">>
        /\ ~exec.invoked
        /\ exec.client = ""
        /\ \A c \in ConnIds : Len(assigned[c]) = exec.sent[c]
        /\ rpc["main"].pc = "idle"

\* two servers are registered, neither got its tools listed, and the tool the
\* model asked for was found nowhere
C13_Witness ==
    /\ exec.pc = "ret"
    /\ exec.tool_name = "remote_tool"
    /\ Len(mcp_clients) = 2
    /\ exec.ret = <<"Error: Tool '", "remote_tool", "' not found.">>

\* C14: a name that a local tool has goes to the local tool, also when a
\* server lists it; any other name goes to the first client, in the order of
\* registration, that is connected and lists it; and one execute() invokes a
\* local tool or sends one request to one client, never both
C14_DispatchOrder ==
    LET local == exec.tool_name \in {"read_file", "write_file", "list_directory",
                                      "run_terminal", "search_files", "web_search"}
        denied == exec.ret = <<"Error: User denied execution.">>
    IN  /\ (exec.pc = "ret" /\ local /\ ~denied) => exec.invoked
        /\ exec.invoked =>
              /\ local
              /\ exec.client = ""
              /\ \A c \in ConnIds : Len(assigned[c]) = exec.sent[c]
        /\ (/\ exec.pc = "ret" /\ ~local /\ ~denied
            /\ \E k \in DOMAIN mcp_clients : Offers(mcp_clients[k], exec.tool_name)) =>
              exec.client # ""
        /\ exec.client # "" =>
              /\ ~local
              /\ \E k \in DOMAIN mcp_clients :
                    /\ mcp_clients[k] = exec.client
                    /\ Offers(mcp_clients[k], exec.tool_name)
                    /\ \A j \in 1..(k - 1) : ~Offers(mcp_clients[j], exec.tool_name)
              /\ \A c \in ConnIds \ {exec.client} : Len(assigned[c]) = exec.sent[c]
              /\ Len(assigned[exec.client]) <= exec.sent[exec.client] + 1

\* two servers list the tool, and the call went to the one registered first;
\* they list write_file too, which the call before ran as the local tool
C14_Witness ==
    /\ exec.pc = "ret"
    /\ exec.tool_name = "remote_tool"
    /\ mcp_clients = <<"c2", "c1">>
    /\ Offers("c1", "remote_tool") /\ Offers("c2", "remote_tool")
    /\ Offers("c2", "write_file")
    /\ exec.client = "c2"
    /\ Len(assigned["c2"]) = exec.sent["c2"] + 1
    /\ Len(chat.fr_parts) = 1
    /\ chat.fr_parts[1].name = "write_file"
    /\ chat.fr_parts[1].content = <<"done">>

\* C15: the definitions handed to the Model Backend never hold the same name
\* twice, whatever the local tools and the registered servers offer
C15_NamesUnique ==
    chat.pc = "generate" =>
        \A i, j \in DOMAIN ToolDefinitions :
            i # j => ToolDefinitions[i] # ToolDefinitions[j]

\* C16: a step that registers nothing leaves the exported definitions as they
\* were, names and order: the steps of execute(), remote calls that time out
\* or fail, the exit of a server
C16_ExportStable ==
    [][mcp_clients' = mcp_clients => ToolDefinitions' = ToolDefinitions]_vars

\* send_message is about to export the definitions a second time, after a
\* round in which the call of a registered server's tool came back with nothing
C16_Witness ==
    /\ chat.pc = "generate"
    /\ chat.current_turn = 2
    /\ Len(ToolDefinitions) > Len(LocalToolOrder)
    /\ ~Alive("c1")
    /\ \E j \in DOMAIN history[Len(history)].parts :
          /\ history[Len(history)].parts[j].name = "remote_tool"
          /\ history[Len(history)].parts[j].content = <<"None">>

\* once send_message has its return value, it calls neither the Model Backend
\* nor a tool, and appends nothing to the history
ReturnsAtOnce ==
    chat.pc = "done" =>
        /\ chat' = chat \/ chat'.pc = "idle"
        /\ history' = history
        /\ backend' = backend
        /\ exec' = exec
        /\ assigned' = assigned

\* C17: when a call of the Model Backend fails, in whatever round,
\* send_message returns the formatted error text: that step appends no turn
\* and starts no tool, and no Model Backend call, tool call or turn follows
C17_FailureEndsCall ==
    /\ [][(chat.pc = "generate" /\ chat'.pc = "done" /\ chat'.ret # <<"final">>) =>
             /\ chat'.ret = <<"Error: ", "e">>
             /\ chat'.calls = chat.calls + 1
             /\ history' = history
             /\ exec' = exec /\ exec.pc = "idle"
             /\ backend' = backend]_vars
    /\ [][ReturnsAtOnce]_vars

\* the Model Backend failed in the second round, after a round of tools
C17_Witness ==
    /\ chat.pc = "done"
    /\ chat.ret = <<"Error: ", "e">>
    /\ chat.calls = 2
    /\ chat.rounds = 1
    /\ history[Len(history)].role = "user"

\* C18: when the Model Backend answers with no function call, send_message
\* appends one model turn whose only part is the text of the answer and
\* returns that text, and no Model Backend call or tool call follows
C18_FinalAnswer ==
    /\ [][(chat.pc = "generate" /\ chat'.pc = "done" /\ history' # history) =>
             /\ history' = Append(history,
                    [role |-> "model",
                     parts |-> <<[kind |-> "text", name |-> "", content |-> chat'.ret,
                                  thoughtSignature |-> <<>>]>>])
             /\ chat'.ret = <<"final">>
             /\ exec' = exec /\ exec.pc = "idle"
             /\ backend' = backend]_vars
    /\ [][chat.pc = "done" /\ chat.ret = <<"final">> => ReturnsAtOnce]_vars

\* the final answer came in the second round, after a round of tools
C18_Witness ==
    /\ chat.pc = "done"
    /\ chat.ret = <<"final">>
    /\ chat.calls = 2
    /\ chat.rounds = 1
    /\ history[Len(history)].role = "model"
    /\ history[Len(history) - 1].parts[1].kind = "functionResponse"

\* C20: whether execute() asks before a sensitive tool depends only on the
\* /safe commands typed in the current session: in a session in which safe
\* mode was not switched off, a sensitive tool has run only after the user
\* was asked, whatever was typed in the sessions before
C20_SafeModeScoped ==
    (/\ session.flips = 0
     /\ exec.pc = "ret"
     /\ exec.tool_name \in {"run_terminal", "write_file"}) =>
        exec.typed # <<>>

(***************************************************************************)
(* Properties of the MCP client.                                           *)
(***************************************************************************)
\* C6: on one connection object the ids given to successive requests are
\* 1, 2, 3, ... in this order, whatever became of the earlier requests and
\* however often connect() was called on the object
C6_IdsIncrease ==
    \A c \in ConnIds : \A k \in DOMAIN assigned[c] : assigned[c][k] = k

\* three requests were given ids, connect() ran twice on the object, and an
\* earlier request ended by a timeout or a failed write
C6_Witness ==
    /\ Len(assigned["c1"]) = MaxReq
    /\ Len(procs["c1"]) >= 2
    /\ \E i \in DOMAIN pending_requests["c1"] : pending_requests["c1"][i] = "dead"

\* C7: a caller blocked in the wait for a response leaves it: with the
\* response, or with the timeout, and the timeout is reported only once the
\* 10 time units have passed
C7_TimeoutResolves ==
    /\ \A t \in ThreadIds :
          (rpc[t].pc = "wait") ~>
              (rpc[t].pc = "ret" /\ rpc[t].how \in {"timeout", "result", "error"})
    /\ [](\A t \in ThreadIds :
              rpc[t].how = "timeout" => rpc[t].waited >= TIMEOUT)

\* the child exited with the request outstanding, and the request timed out
C7_Witness ==
    /\ rpc["main"].pc = "ret"
    /\ rpc["main"].how = "timeout"
    /\ rpc["main"].req_id \in RequestedIds(procs["c1"][process["c1"]])
    /\ ~Alive("c1")

\* C19: connect() reports success and leaves the connection marked connected
\* only if tools/list came back with a list of tools: when that request timed
\* out, failed, or was answered with an error or with something else,
\* connect() returns False and the connection is not marked connected
C19_UsableAfterDiscovery ==
    [][\A t \in ThreadIds :
          (/\ task[t].op = "connect"
           /\ rpc[t].method = "tools/list"
           /\ task'[t].op = "done"
           /\ ~(rpc[t].how = "result" /\ rpc[t].ret.kind = "tools")) =>
              /\ task'[t].result = "False"
              /\ ~is_connected'[task[t].conn]]_vars

\* C21: when a session ends, here by the reset of the context, every child
\* process spawned so far has been terminated
C21_TeardownTerminates ==
    [][session'.id # session.id =>
          \A c \in ConnIds : \A g \in DOMAIN procs'[c] : ~procs'[c][g].alive]_vars

\* C22: what connect() writes to the child is, in this order, the initialize
\* request, the notifications/initialized notification and the tools/list
\* request, and the notification is written only once the response to the
\* initialize request has come with a result that is accepted
C22_HandshakeOrder ==
    /\ [](\A c \in ConnIds : \A g \in DOMAIN procs[c] :
             LET written == procs[c][g].stdin IN
             /\ Len(written) >= 1 =>
                   written[1].kind = "request" /\ written[1].method = "initialize"
             /\ Len(written) >= 2 =>
                   /\ written[2].kind = "notification"
                   /\ written[2].method = "notifications/initialized"
             /\ Len(written) >= 3 =>
                   written[3].kind = "request" /\ written[3].method = "tools/list"
             /\ \A k \in DOMAIN written :
                   k > 3 => written[k].kind = "request" /\ written[k].method = "tools/call")
    /\ [][\A c \in ConnIds : \A g \in DOMAIN procs[c] :
             (Len(procs[c][g].stdin) = 1 /\ Len(procs'[c][g].stdin) = 2) =>
                 \E t \in threads :
                    /\ rpc[t].pc = "ret"
                    /\ rpc[t].method = "initialize"
                    /\ rpc[t].how = "result"
                    /\ rpc[t].got.kind = "result"
                    /\ rpc[t].got.id = procs[c][g].stdin[1].id
                    /\ rpc[t].got.body.kind \notin {"null", "empty"}]_vars

\* the three messages of the handshake have been written to the child
C22_Witness ==
    /\ Len(procs["c1"]) = 1
    /\ Len(procs["c1"][1].stdin) = 3
    /\ procs["c1"][1].stdin[3].method = "tools/list"
    /\ procs["c1"][1].stdin[3].id = 2

\* C27: the reader thread outlives every malformed line: having taken from
\* the pipe a line that is no JSON, or JSON that is no message object, it is
\* back at the top of its loop
C27_MalformedDropped ==
    [][\A c \in ConnIds : \A r \in DOMAIN readers[c] :
          LET g == readers[c][r].gen IN
          (/\ readers[c][r].pc = "readline"
           /\ procs[c][g].stdout # <<>>
           /\ Head(procs[c][g].stdout).kind \in {"garbage", "scalar"}
           /\ Len(procs'[c][g].stdout) < Len(procs[c][g].stdout)) =>
              readers'[c][r].pc \in {"readline", "exited"}]_vars

\* C25: the reader thread never ends on a slot that was removed between its
\* membership test and its lookup: no reader is dead with the response it was
\* about to deliver in its hands
C25_TableProtected ==
    \A c \in ConnIds : \A r \in DOMAIN readers[c] :
        ~(readers[c][r].pc = "dead" /\ readers[c][r].msg.kind \in {"result", "error"})

\* C26: whatever the interleaving of two callers on one connection, the ids
\* given to their requests differ, and a caller that waits has its own queue
\* in the slot of its id
C26_DistinctIds ==
    /\ \A c \in ConnIds : \A j, k \in DOMAIN assigned[c] :
          j # k => assigned[c][j] # assigned[c][k]
    /\ \A t \in threads :
          rpc[t].pc \in {"write", "wait"} =>
              /\ rpc[t].req_id \in DOMAIN pending_requests[rpc[t].conn]
              /\ pending_requests[rpc[t].conn][rpc[t].req_id] = t

\* C23: when a request is written to the child, the pending table already
\* holds the slot of its id, with the queue of the caller that writes; and
\* the reader keeps for delivery every response whose id a caller waits for
C23_SlotBeforeWrite ==
    /\ [][\A c \in ConnIds : \A g \in DOMAIN procs[c] :
             LET before == procs[c][g].stdin
                 after == procs'[c][g].stdin IN
             (Len(after) = Len(before) + 1 /\ after[Len(after)].kind = "request") =>
                 /\ after[Len(after)].id \in DOMAIN pending_requests[c]
                 /\ \E t \in threads :
                       /\ rpc[t].pc = "write"
                       /\ rpc'[t].pc = "wait"
                       /\ rpc[t].req_id = after[Len(after)].id
                       /\ pending_requests[c][rpc[t].req_id] = t]_vars
    /\ [][\A c \in ConnIds : \A r \in DOMAIN readers[c] :
             LET g == readers[c][r].gen IN
             (/\ readers[c][r].pc = "readline"
              /\ procs[c][g].stdout # <<>>
              /\ Len(procs'[c][g].stdout) < Len(procs[c][g].stdout)
              /\ Head(procs[c][g].stdout).kind \in {"result", "error"}
              /\ \E t \in threads :
                    /\ rpc[t].pc = "wait"
                    /\ rpc[t].conn = c
                    /\ rpc[t].req_id = Head(procs[c][g].stdout).id) =>
                 /\ readers'[c][r].pc = "put"
                 /\ readers'[c][r].msg = Head(procs[c][g].stdout)]_vars

\* the response came before the caller had waited at all, and the reader
\* holds it for the caller's queue
C23_Witness ==
    /\ rpc["main"].pc = "wait"
    /\ rpc["main"].waited = 0
    /\ rpc["main"].method = "tools/call"
    /\ Len(readers["c1"]) = 1
    /\ readers["c1"][1].pc = "put"
    /\ readers["c1"][1].msg.id = rpc["main"].req_id

\* C24: the child is never given a line that holds bytes of two messages:
\* every line written to it by callers that share the connection is whole
C24_WritesSerialized ==
    \A c \in ConnIds : \A g \in DOMAIN procs[c] : \A k \in DOMAIN procs[c][g].stdin :
        procs[c][g].stdin[k].kind # "garbled"

\* C28: the step in which send_request gives up waiting leaves the child
\* process, the connected flag and the discovered tools as they were, and a
\* request written to a running child after an earlier timeout reaches it
C28_TimeoutTearsNothingDown ==
    /\ [][\A t \in ThreadIds :
            (rpc[t].pc = "wait" /\ rpc'[t].pc = "ret" /\ rpc'[t].how = "timeout")
                => /\ procs' = procs
                   /\ process' = process
                   /\ is_connected' = is_connected
                   /\ tools' = tools]_vars
    /\ [][\A t \in ThreadIds :
            (/\ rpc[t].pc = "write"
             /\ rpc'[t].pc # "write"
             /\ Alive(rpc[t].conn)
             /\ \E i \in DOMAIN pending_requests[rpc[t].conn] :
                    pending_requests[rpc[t].conn][i] = "dead")
                => /\ rpc'[t].pc = "wait"
                   /\ procs'[rpc[t].conn][process[rpc[t].conn]].stdin =
                         Append(procs[rpc[t].conn][process[rpc[t].conn]].stdin,
                                RequestLine(rpc[t].req_id, rpc[t].method))]_vars

\* a tools/call is answered by a child that is still running although the
\* tools/list before it timed out
C28_Witness ==
    /\ rpc["main"].pc = "ret"
    /\ rpc["main"].method = "tools/call"
    /\ rpc["main"].how = "result"
    /\ Alive("c1")
    /\ is_connected["c1"]
    /\ \E i \in DOMAIN pending_requests["c1"] :
          /\ pending_requests["c1"][i] = "dead"
          /\ i < rpc["main"].req_id

\* what the stream callback has been given once the first n calls of the
\* round are done, and the (n+1)th is running if busy
RECURSIVE StreamOf(_, _, _, _)
StreamOf(calls, parts, n, busy) ==
    IF n = 0
    THEN IF busy THEN <<RunningTool(calls[1].name)>> ELSE <<>>
    ELSE IF busy
    THEN Append(StreamOf(calls, parts, n, FALSE), RunningTool(calls[n + 1].name))
    ELSE StreamOf(calls, parts, n - 1, FALSE) \o
         <<RunningTool(calls[n].name), ResultShown(calls[n].name, parts[n].content)>>

\* C29: in a tool round the calls are handled one at a time in the order
\* received: for each, the tool-started notification, then execute, then the
\* result-preview notification; execute of the next call starts only after the
\* one before has returned and its result is collected; and the user turn with
\* the functionResponse parts is appended only after the last call is done
C29_OneAtATimeInOrder ==
    /\ [](chat.pc = "tools" =>
            /\ Len(chat.fr_parts) <= Len(chat.function_calls)
            /\ \A k \in DOMAIN chat.fr_parts :
                  chat.fr_parts[k].name = chat.function_calls[k].name
            /\ exec.pc # "idle" =>
                  /\ Len(chat.fr_parts) < Len(chat.function_calls)
                  /\ exec.tool_name = chat.function_calls[Len(chat.fr_parts) + 1].name
            /\ chat.stream = StreamOf(chat.function_calls, chat.fr_parts,
                                      Len(chat.fr_parts), exec.pc # "idle"))
    /\ [][(chat.pc = "tools" /\ history' # history) =>
             /\ exec.pc = "idle"
             /\ Len(chat.fr_parts) = Len(chat.function_calls)
             /\ chat.stream = StreamOf(chat.function_calls, chat.fr_parts,
                                       Len(chat.function_calls), FALSE)
             /\ history' = Append(history, Turn("user", chat.fr_parts))]_vars

\* both calls of a round are done, the second after the first
C29_Witness ==
    /\ chat.pc = "tools"
    /\ exec.pc = "idle"
    /\ Len(chat.function_calls) = 2
    /\ Len(chat.fr_parts) = 2
    /\ chat.fr_parts[2].name = "remote_tool"
    /\ chat.stream = << RunningTool("write_file"),
                        ResultShown("write_file", chat.fr_parts[1].content),
                        RunningTool("remote_tool"),
                        ResultShown("remote_tool", chat.fr_parts[2].content) >>

\* C30: the model turn appended for a response with function calls is the
\* text part, present exactly when the text is not empty, followed by one
\* functionCall part per returned call in the returned order, and each of these
\* parts carries the thoughtSignature of the response exactly when the response
\* has one
C30_ModelTurnParts ==
    chat.pc = "tools" =>
        LET response == chat.response
            turn == history[Len(history)]
            lead == IF response.text # "" THEN 1 ELSE 0 IN
        /\ turn.role = "model"
        /\ Len(turn.parts) = lead + Len(response.function_calls)
        /\ response.text # "" => turn.parts[1] = TextPart(response.text)
        /\ \A k \in DOMAIN response.function_calls :
              /\ turn.parts[lead + k].kind = "functionCall"
              /\ turn.parts[lead + k].name = response.function_calls[k].name
              /\ turn.parts[lead + k].thoughtSignature = response.thought_signature

\* C31: whatever the length of a tool result, the preview of it given to the
\* stream callback has at most 200 characters
C31_PreviewAtMost200 ==
    \A k \in DOMAIN chat.stream :
        chat.stream[k].event = "Result" => Len(chat.stream[k].preview) <= 200

\* C32: when execute() returns for a result of tools/call, it returns the text
\* of the first content item of type text, whatever items of other types
\* come before it, and the stringified result when the result has no item of
\* type text or no content list
C32_FirstTextItem ==
    [][(exec.pc = "call_tool" /\ exec'.pc = "ret" /\ rpc["main"].how = "result") =>
          LET result == rpc["main"].ret IN
          IF result.kind = "content"
             /\ \E k \in DOMAIN result.content : result.content[k].type = "text"
          THEN \E k \in DOMAIN result.content :
                  /\ result.content[k].type = "text"
                  /\ \A j \in 1..(k - 1) : result.content[j].type # "text"
                  /\ exec'.ret = <<result.content[k].text>>
          ELSE exec'.ret = Str(result)]_vars

\* the text came from the second item of the list, after an image
C32_Witness ==
    /\ exec.pc = "ret"
    /\ exec.how = "result"
    /\ exec.tool_name = "remote_tool"
    /\ exec.ret = <<"second">>

\* every model turn of h that asks for tools is followed by a user turn with
\* one functionResponse per functionCall, for the same tools in the same order
Answered(h) ==
    \A k \in DOMAIN h :
        (h[k].role = "model" /\ \E p \in DOMAIN h[k].parts : h[k].parts[p].kind = "functionCall")
            => /\ k < Len(h)
               /\ h[k + 1].role = "user"
               /\ LET asked == SelectSeq(h[k].parts, LAMBDA part : part.kind = "functionCall")
                      given == h[k + 1].parts IN
                  /\ Len(given) = Len(asked)
                  /\ \A p \in DOMAIN given :
                        /\ given[p].kind = "functionResponse"
                        /\ given[p].name = asked[p].name

\* C33: a call of send_message that ended with the max-turns error leaves the
\* session usable: at that end every functionCall of the history has its
\* functionResponse and the return to the prompt changes nothing of it; the
\* next call starts at turn 1 of 10 whatever the earlier calls used, appends
\* its user turn to the history as it is, and every history the Model Backend
\* is then called with still has every functionCall answered
C33_ReusableAfterMaxTurns ==
    /\ []((chat.pc = "done" /\ chat.ret = <<"Error: Max tool execution turns reached.">>)
             => /\ Answered(history)
                /\ chat.calls = 10)
    /\ [][(chat.pc = "done" /\ chat'.pc # "done")
             => (chat'.pc = "idle" /\ history' = history)]_vars
    /\ [][(chat.pc = "idle" /\ chat'.pc # "idle")
             => /\ chat'.pc = "generate"
                /\ chat'.current_turn = 1
                /\ chat'.calls = 0
                /\ Len(history') = Len(history) + 1
                /\ SubSeq(history', 1, Len(history)) = history
                /\ history'[Len(history')].role = "user"
                /\ history'[Len(history')].parts[1].kind = "text"]_vars
    /\ [](chat.pc = "generate" => Answered(history))

\* the second message of a session whose first message used its ten turns and
\* ended with the max-turns error is at its own tenth call of the Model Backend
C33_Witness ==
    /\ chat.pc = "generate"
    /\ Messages = 2
    /\ chat.current_turn = 10
    /\ backend.given = 20
    /\ Len(history) = 40

\* C34: in every history the Model Backend is called with, the first turn is
\* a user turn and no two turns next to each other have the same role
C34_RolesAlternate ==
    chat.pc = "generate" =>
        /\ history[1].role = "user"
        /\ \A k \in 1..(Len(history) - 1) : history[k].role # history[k + 1].role

\* C35: with safe mode off, execute() of a name ends with the not-found text
\* exactly when the name is not among the exported definitions, and for an
\* exported name it reaches an implementation: the local function is called or
\* the request goes to a client
C35_ExportMatchesDispatch ==
    [][(exec.pc = "idle" /\ exec'.pc # "idle" /\ ~SAFE_MODE) =>
          LET name == exec'.tool_name
              exported == \E k \in DOMAIN ToolDefinitions : ToolDefinitions[k] = name
              notfound == /\ exec'.pc = "ret"
                          /\ exec'.ret = <<"Error: Tool '", name, "' not found.">> IN
          /\ exported <=> ~notfound
          /\ exported => (exec'.invoked \/ exec'.pc = "call_tool")
          /\ notfound => (~exec'.invoked /\ exec'.client = "")]_vars

\* with safe mode off, the call of an exported tool of the server is on its way
\* to the client
C35_Witness ==
    /\ ~SAFE_MODE
    /\ exec.pc = "call_tool"
    /\ exec.tool_name = "remote_tool"
    /\ exec.client = "c1"
    /\ \E k \in DOMAIN ToolDefinitions : ToolDefinitions[k] = "remote_tool"

\* C36: once close() has terminated the child of a connection (no child ends
\* in another way here), the connection is not connected, none of its tools
\* is among the exported definitions, and execute() hands no call to it
C36_ClosedIsDisconnected ==
    \A c \in ConnIds :
        (process[c] # 0 /\ ~procs[c][process[c]].alive) =>
            /\ ~is_connected[c]
            /\ \A j \in DOMAIN tools[c] :
                  tools[c][j] \in {"read_file", "write_file", "list_directory",
                                   "run_terminal", "search_files", "web_search"}
                  \/ \A k \in DOMAIN ToolDefinitions : ToolDefinitions[k] # tools[c][j]
            /\ ~(exec.pc = "call_tool" /\ exec.client = c)

\* C37: when connect() returns False after it spawned the child, the child
\* has been terminated and the connection is not marked connected
C37_FailedConnectCleansUp ==
    [][\A t \in ThreadIds :
          (/\ task[t].op = "connect"
           /\ task'[t].op = "done"
           /\ task'[t].result = "False") =>
              LET c == task[t].conn IN
              /\ ~is_connected'[c]
              /\ process'[c] # 0 => ~procs'[c][process'[c]].alive]_vars

\* C38: an error response with the id of a pending request is routed to the
\* caller that waits for it; once it is in the caller's queue the caller
\* leaves its wait only by returning the failure (None) with the slot of the id
\* removed, never by the timeout, and it does leave
C38_ErrorResolvesAtOnce ==
    /\ [][\A c \in ConnIds : \A r \in DOMAIN readers[c] :
             LET g == readers[c][r].gen IN
             (/\ readers[c][r].pc = "readline"
              /\ procs[c][g].stdout # <<>>
              /\ Len(procs'[c][g].stdout) < Len(procs[c][g].stdout)
              /\ Head(procs[c][g].stdout).kind = "error"
              /\ Head(procs[c][g].stdout).id \in DOMAIN pending_requests[c]) =>
                 /\ readers'[c][r].pc = "put"
                 /\ readers'[c][r].msg = Head(procs[c][g].stdout)]_vars
    /\ [][\A t \in ThreadIds :
             (/\ rpc[t].pc = "wait"
              /\ resp_queue[t] # <<>>
              /\ Head(resp_queue[t]).kind = "error"
              /\ rpc'[t].pc # "wait") =>
                 /\ rpc'[t].pc = "ret"
                 /\ rpc'[t].how = "error"
                 /\ rpc'[t].ret = [kind |-> "null", content |-> <<>>, tools |-> <<>>]
                 /\ rpc[t].req_id \notin DOMAIN pending_requests'[rpc[t].conn]]_vars
    /\ \A t \in ThreadIds :
          (rpc[t].pc = "wait" /\ resp_queue[t] # <<>> /\ Head(resp_queue[t]).kind = "error")
              ~> (rpc[t].pc = "ret" /\ rpc[t].how = "error")

\* a tools/call was answered with an error and send_request has returned
C38_Witness ==
    /\ rpc["main"].pc = "ret"
    /\ rpc["main"].method = "tools/call"
    /\ rpc["main"].how = "error"
    /\ rpc["main"].got.kind = "error"
    /\ rpc["main"].got.id = rpc["main"].req_id
    /\ rpc["main"].req_id \notin DOMAIN pending_requests["c1"]

\* C8: once send_request has returned, by any path, the pending table holds
\* no entry for the id of the request, and with no request under way the
\* table is empty
C8_PendingRemoved ==
    /\ \A t \in threads :
          rpc[t].pc = "ret" => rpc[t].req_id \notin DOMAIN pending_requests[rpc[t].conn]
    /\ \A c \in ConnIds :
          (\A t \in threads : rpc[t].pc = "idle") => pending_requests[c] = <<>>

\* a reader step that takes a line off the pipe and does not keep it for a queue
Discarded ==
    \E c \in ConnIds : \E r \in DOMAIN readers[c] :
        /\ readers[c][r].pc = "readline"
        /\ Len(procs'[c]) = Len(procs[c])
        /\ Len(procs'[c][readers[c][r].gen].stdout) < Len(procs[c][readers[c][r].gen].stdout)
        /\ readers'[c][r].pc # "put"

\* C9: a caller that got a response got the one carrying the id of its own
\* request, in whatever order the child answered, and a line with no id or
\* with an id no pending entry has changes no pending entry and no queue
C9_MatchedById ==
    /\ [](\A t \in threads :
             /\ rpc[t].how \in {"result", "error"} => rpc[t].got.id = rpc[t].req_id
             /\ \A k \in DOMAIN resp_queue[t] : resp_queue[t][k].id = rpc[t].req_id)
    /\ [][Discarded => UNCHANGED <<pending_requests, resp_queue, rpc>>]_vars

\* two requests were outstanding, the child answered the later one first and
\* its caller has it, while the caller of the earlier one still waits; a line
\* nobody asked for went by
C9_Witness ==
    /\ rpc["t2"].pc = "ret" /\ rpc["t2"].how = "result"
    /\ rpc["main"].pc = "wait"
    /\ rpc["main"].req_id < rpc["t2"].req_id
    /\ rpc["t2"].got.id = rpc["t2"].req_id
    /\ emitted["c1"] > 0
    /\ procs["c1"][process["c1"]].stdout = <<>>

====
